---- MODULE Spec2Model ----
(***************************************************************************)
(* A model of stability_sdk/utils.py: the enum lookups, the filename       *)
(* builder truncate_fit, the keyframe parser and interpolator, the         *)
(* transform pipeline image_xform and the warp3d_op builder.               *)
(*                                                                         *)
(* Python values are records tagged by a field k, so that values of        *)
(* different Python types can be compared.  A Python str is a sequence of  *)
(* one-character strings.  Every function of the source has its own        *)
(* specification (SpecLookup, SpecTruncate, ...) over the shared           *)
(* variables; the variables a function does not use stay at Unused.        *)
(***************************************************************************)
EXTENDS Integers, Sequences, FiniteSets, TLC

VARIABLES
    pc,                \* position in the function being executed
    args,              \* the arguments of the call
    ret,               \* the returned value (Unset until the call returns)
    err,               \* the raised exception (Unset until the call raises)
    images,            \* image_xform: the accumulated image list
    mask,              \* image_xform: the mask slot
    cursor,            \* image_xform: <<message, artifact>> consumed so far
    warp3d,            \* warp3d_op: the TransformWarp3d being populated
    key_frame_series,  \* key_frame_inbetweens: the series
    interp_method,     \* key_frame_inbetweens: the (effective) method
    frames,            \* key_frame_parse: the dict being built
    scan               \* key_frame_parse: where re.finditer resumes

vars == <<pc, args, ret, err, images, mask, cursor, warp3d,
          key_frame_series, interp_method, frames, scan>>

----------------------------------------------------------------------------
(* Python values *)

None == [k |-> "None"]
Unset == [k |-> "unset"]
Unused == [k |-> "unused"]
Str(chars) == [k |-> "str", v |-> chars]
Enum(name) == [k |-> "enum", name |-> name]
Exception(type, msg) == [k |-> "exc", type |-> type, msg |-> msg]

Min(a, b) == IF a <= b THEN a ELSE b
Max(a, b) == IF a >= b THEN a ELSE b

----------------------------------------------------------------------------
(* str methods, over sequences of characters *)

UpperChars == <<"A","B","C","D","E","F","G","H","I","J","K","L","M",
                "N","O","P","Q","R","S","T","U","V","W","X","Y","Z">>
LowerChars == <<"a","b","c","d","e","f","g","h","i","j","k","l","m",
                "n","o","p","q","r","s","t","u","v","w","x","y","z">>

\* The characters str.strip() removes (the ones the inputs can hold).
Whitespace == {" ", "\t", "\n"}

\* str.lower() of one character
LowerChar(c) ==
    IF \E i \in DOMAIN UpperChars : UpperChars[i] = c
    THEN LowerChars[CHOOSE i \in DOMAIN UpperChars : UpperChars[i] = c]
    ELSE c

\* str.upper() of one character (used only to build inputs)
UpperChar(c) ==
    IF \E i \in DOMAIN LowerChars : LowerChars[i] = c
    THEN UpperChars[CHOOSE i \in DOMAIN LowerChars : LowerChars[i] = c]
    ELSE c

\* s.lower()
lower(s) == [i \in DOMAIN s |-> LowerChar(s[i])]

RECURSIVE lstrip(_)
lstrip(s) ==
    IF s /= <<>> /\ Head(s) \in Whitespace THEN lstrip(Tail(s)) ELSE s

RECURSIVE rstrip(_)
rstrip(s) ==
    IF s /= <<>> /\ s[Len(s)] \in Whitespace
    THEN rstrip(SubSeq(s, 1, Len(s) - 1))
    ELSE s

\* A strip() that forgets the right-hand side.
strip_left_only(s) == lstrip(s)

\* s.strip()
strip(s) == rstrip(lstrip(s))

----------------------------------------------------------------------------
(* The lookup tables: dicts as sets of <<key, value>> pairs *)

SAMPLERS == {
    << <<"d","d","i","m">>, Enum("SAMPLER_DDIM") >>,
    << <<"p","l","m","s">>, Enum("SAMPLER_DDPM") >>,
    << <<"k","_","e","u","l","e","r">>, Enum("SAMPLER_K_EULER") >>,
    << <<"k","_","e","u","l","e","r","_","a","n","c","e","s","t","r","a","l">>,
       Enum("SAMPLER_K_EULER_ANCESTRAL") >>,
    << <<"k","_","h","e","u","n">>, Enum("SAMPLER_K_HEUN") >>,
    << <<"k","_","d","p","m","_","2">>, Enum("SAMPLER_K_DPM_2") >>,
    << <<"k","_","d","p","m","_","2","_","a","n","c","e","s","t","r","a","l">>,
       Enum("SAMPLER_K_DPM_2_ANCESTRAL") >>,
    << <<"k","_","l","m","s">>, Enum("SAMPLER_K_LMS") >> }

GUIDANCE_PRESETS == {
    << <<"n","o","n","e">>, Enum("GUIDANCE_PRESET_NONE") >>,
    << <<"s","i","m","p","l","e">>, Enum("GUIDANCE_PRESET_SIMPLE") >>,
    << <<"f","a","s","t","b","l","u","e">>, Enum("GUIDANCE_PRESET_FAST_BLUE") >>,
    << <<"f","a","s","t","g","r","e","e","n">>, Enum("GUIDANCE_PRESET_FAST_GREEN") >> }

COLOR_SPACES == {
    << <<"h","s","v">>, Enum("COLOR_MATCH_HSV") >>,
    << <<"l","a","b">>, Enum("COLOR_MATCH_LAB") >>,
    << <<"r","g","b">>, Enum("COLOR_MATCH_RGB") >> }

BORDER_MODES_2D == {
    << <<"r","e","p","l","i","c","a","t","e">>, Enum("BORDER_REPLICATE") >>,
    << <<"r","e","f","l","e","c","t">>, Enum("BORDER_REFLECT") >>,
    << <<"w","r","a","p">>, Enum("BORDER_WRAP") >>,
    << <<"z","e","r","o">>, Enum("BORDER_ZERO") >> }

_2d_only_modes == { <<"w","r","a","p">> }

BORDER_MODES_3D == { p \in BORDER_MODES_2D : p[1] \notin _2d_only_modes }

\* dict.get(key): the value, or None
Get(table, key) ==
    IF \E p \in table : p[1] = key
    THEN (CHOOSE p \in table : p[1] = key)[2]
    ELSE None

Keys(table) == { p[1] : p \in table }

\* f"<literal>{s}": the literal text is one element, then the characters of s
FString(literal, s) == <<literal>> \o s

----------------------------------------------------------------------------
(* The lookup functions.  Each returns the enum value or the exception it  *)
(* raises.                                                                 *)

\* A 2D lookup that strips nothing on the right.
border_mode_from_str_2d_lstrip(s) ==
    LET repr == Get(BORDER_MODES_2D, strip_left_only(lower(s)))
    IN  IF repr = None
        THEN Exception("ValueError", FString("invalid 2d border mode ", s))
        ELSE repr

border_mode_from_str_2d(s) ==
    LET repr == Get(BORDER_MODES_2D, strip(lower(s)))
    IN  IF repr = None
        THEN Exception("ValueError", FString("invalid 2d border mode ", s))
        ELSE repr

border_mode_from_str_3d(s) ==
    LET repr == Get(BORDER_MODES_3D, strip(lower(s)))
    IN  IF repr = None
        THEN Exception("ValueError", FString("invalid 3d border mode ", s))
        ELSE repr

color_match_from_string(s) ==
    LET repr == Get(COLOR_SPACES, strip(lower(s)))
    IN  IF repr = None
        THEN Exception("ValueError", FString("invalid color space: ", s))
        ELSE repr

guidance_from_string(s) ==
    LET repr == Get(GUIDANCE_PRESETS, strip(lower(s)))
    IN  IF repr = None
        THEN Exception("ValueError", FString("invalid guidance preset: ", s))
        ELSE repr

get_sampler_from_str(s) ==
    LET algorithm_key == strip(lower(s))
        repr == Get(SAMPLERS, algorithm_key)
    IN  IF repr = None
        THEN Exception("ValueError", FString("invalid sampler: ", s))
        ELSE repr

\* The caller's side of a call that returns r or raises it.
Finish(r) ==
    IF r.k = "exc"
    THEN pc' = "raised" /\ err' = r /\ ret' = Unset
    ELSE pc' = "returned" /\ ret' = r /\ err' = Unset

----------------------------------------------------------------------------
(* SpecLookup: one call of one lookup function on one input string *)

\* Bound: the number of whitespace characters put on each side of an input.
MaxPad == 1

RECURSIVE SeqsUpTo(_, _)
SeqsUpTo(S, n) ==
    IF n = 0 THEN { <<>> }
    ELSE LET shorter == SeqsUpTo(S, n - 1)
         IN  shorter \cup { <<c>> \o q : c \in S, q \in { r \in shorter : Len(r) = n - 1 } }

LookupFns == { "border_mode_from_str_2d", "border_mode_from_str_3d",
               "color_match_from_string", "guidance_from_string",
               "get_sampler_from_str" }

\* Strings that are keys of no table.
NonKeys == { <<>>, <<"x">>, <<"w","r"," ","a","p">>, <<"w","r","a","p","s">>,
             <<"k","-","l","m","s">> }

LookupWords ==
    Keys(SAMPLERS) \cup Keys(GUIDANCE_PRESETS) \cup Keys(COLOR_SPACES)
        \cup Keys(BORDER_MODES_2D) \cup NonKeys

Cased(w) ==
    { w, [i \in DOMAIN w |-> UpperChar(w[i])],
      [i \in DOMAIN w |-> IF i = 1 THEN UpperChar(w[i]) ELSE w[i]] }

LookupInputs ==
    { l \o c \o r : l \in SeqsUpTo(Whitespace, MaxPad),
                    r \in SeqsUpTo(Whitespace, MaxPad),
                    c \in UNION { Cased(w) : w \in LookupWords } }

OtherUnused(used) ==
    /\ "images" \notin used => images = Unused
    /\ "mask" \notin used => mask = Unused
    /\ "cursor" \notin used => cursor = Unused
    /\ "warp3d" \notin used => warp3d = Unused
    /\ "key_frame_series" \notin used => key_frame_series = Unused
    /\ "interp_method" \notin used => interp_method = Unused
    /\ "frames" \notin used => frames = Unused
    /\ "scan" \notin used => scan = Unused

locals == <<images, mask, cursor, warp3d, key_frame_series, interp_method,
            frames, scan>>

InitLookup ==
    /\ pc = "call"
    /\ args \in [fn : LookupFns, s : LookupInputs]
    /\ ret = Unset
    /\ err = Unset
    /\ OtherUnused({})

Call_border_mode_from_str_2d ==
    /\ pc = "call" /\ args.fn = "border_mode_from_str_2d"
    /\ Finish(border_mode_from_str_2d(args.s))
    /\ UNCHANGED <<args, locals>>

Call_border_mode_from_str_3d ==
    /\ pc = "call" /\ args.fn = "border_mode_from_str_3d"
    /\ Finish(border_mode_from_str_3d(args.s))
    /\ UNCHANGED <<args, locals>>

Call_color_match_from_string ==
    /\ pc = "call" /\ args.fn = "color_match_from_string"
    /\ Finish(color_match_from_string(args.s))
    /\ UNCHANGED <<args, locals>>

Call_guidance_from_string ==
    /\ pc = "call" /\ args.fn = "guidance_from_string"
    /\ Finish(guidance_from_string(args.s))
    /\ UNCHANGED <<args, locals>>

Call_get_sampler_from_str ==
    /\ pc = "call" /\ args.fn = "get_sampler_from_str"
    /\ Finish(get_sampler_from_str(args.s))
    /\ UNCHANGED <<args, locals>>

NextLookup ==
    \/ Call_border_mode_from_str_2d
    \/ Call_border_mode_from_str_3d
    \/ Call_color_match_from_string
    \/ Call_guidance_from_string
    \/ Call_get_sampler_from_str

SpecLookup == InitLookup /\ [][NextLookup]_vars

\* The table each lookup function is documented to consult.
TableOf(fn) ==
    CASE fn = "border_mode_from_str_2d" -> BORDER_MODES_2D
      [] fn = "border_mode_from_str_3d" -> BORDER_MODES_3D
      [] fn = "color_match_from_string" -> COLOR_SPACES
      [] fn = "guidance_from_string" -> GUIDANCE_PRESETS
      [] fn = "get_sampler_from_str" -> SAMPLERS

\* SubSeq(s, i, j) is s with the surrounding whitespace trimmed.
IsTrimOf(i, j, s) ==
    /\ \A h \in 1..(i - 1) : s[h] \in Whitespace
    /\ \A h \in (j + 1)..Len(s) : s[h] \in Whitespace
    /\ i <= j => s[i] \notin Whitespace /\ s[j] \notin Whitespace

\* t occurs in m as a contiguous run.
Contains(m, t) ==
    \E i \in 0..(Len(m) - Len(t)) : SubSeq(m, i + 1, i + Len(t)) = t

Wrap == <<"w","r","a","p">>

\* C5: every lookup function returns the table value of its input, lower-cased
\* and trimmed, when that is a key of the function's own table, and otherwise
\* raises a ValueError whose message contains the input; the 3D border table
\* is the 2D table without "wrap".
C5_LookupContract ==
    /\ BORDER_MODES_3D = { p \in BORDER_MODES_2D : p[1] /= Wrap }
    /\ Wrap \in Keys(BORDER_MODES_2D)
    /\ pc \in {"returned", "raised"} =>
         \E i \in 1..(Len(args.s) + 1), j \in 0..Len(args.s) :
            /\ IsTrimOf(i, j, args.s)
            /\ LET n == SubSeq(lower(args.s), i, j)
               IN  /\ IF n \in Keys(TableOf(args.fn))
                      THEN /\ pc = "returned"
                           /\ <<n, ret>> \in TableOf(args.fn)
                      ELSE /\ pc = "raised"
                           /\ err.type = "ValueError"
                           /\ Contains(err.msg, args.s)
                   /\ (n = Wrap /\ args.fn = "border_mode_from_str_2d")
                         => ret = Enum("BORDER_WRAP")
                   /\ (n = Wrap /\ args.fn = "border_mode_from_str_3d")
                         => pc = "raised"

\* A padded, upper-cased "wrap" was accepted by the 2D lookup.
C5_Witness ==
    /\ pc = "returned"
    /\ args.fn = "border_mode_from_str_2d"
    /\ args.s = <<" ", "W", "R", "A", "P", "\t">>
    /\ ret = Enum("BORDER_WRAP")

----------------------------------------------------------------------------
(* truncate_fit *)

Digits == <<"0","1","2","3","4","5","6","7","8","9">>

\* str(n) of a non-negative int
RECURSIVE FormatNat(_)
FormatNat(n) ==
    IF n < 10 THEN <<Digits[n + 1]>>
    ELSE FormatNat(n \div 10) \o <<Digits[(n % 10) + 1]>>

\* f"{n}" of an int
FormatInt(n) == IF n < 0 THEN <<"-">> \o FormatNat(-n) ELSE FormatNat(n)

\* s[:b]: a negative b counts from the end of s
SliceTo(s, b) ==
    IF b >= 0 THEN SubSeq(s, 1, Min(b, Len(s)))
    ELSE SubSeq(s, 1, Max(Len(s) + b, 0))

\* f"_{ts}_{idx}"
PostOf(ts, idx) == <<"_">> \o FormatInt(ts) \o <<"_">> \o FormatInt(idx)

\* The budget without the one character held back.
PromptBudgetOffByOne(prefix, ext, ts, idx, max) ==
    max - Len(prefix) - Len(PostOf(ts, idx)) - Len(ext)

PromptBudget(prefix, ext, ts, idx, max) ==
    max - Len(prefix) - Len(PostOf(ts, idx)) - (Len(ext) + 1)

truncate_fit(prefix, prompt, ext, ts, idx, max) ==
    LET post == PostOf(ts, idx)
        prompt_budget == PromptBudget(prefix, ext, ts, idx, max)
    IN  Str(prefix \o SliceTo(prompt, prompt_budget) \o post \o ext)

\* Bounds: the longest prompt and the largest max of the calls explored.
MaxPromptLen == 4
MaxMaxArg == 18

TruncatePrefixes == { <<>>, <<"a","_">> }
TruncateExts == { <<>>, <<".","p","n","g">> }
TruncateTimestamps == { 0, 7, 12345 }
TruncateIndexes == { 0, 3, 10 }

InitTruncate ==
    /\ pc = "call"
    /\ args \in [ prefix : TruncatePrefixes,
                  prompt : SeqsUpTo({"p", "q"}, MaxPromptLen),
                  ext : TruncateExts,
                  ts : TruncateTimestamps,
                  idx : TruncateIndexes,
                  max : 0..MaxMaxArg ]
    /\ ret = Unset
    /\ err = Unset
    /\ OtherUnused({})

Call_truncate_fit ==
    /\ pc = "call"
    /\ Finish(truncate_fit(args.prefix, args.prompt, args.ext,
                           args.ts, args.idx, args.max))
    /\ UNCHANGED <<args, locals>>

NextTruncate == Call_truncate_fit

SpecTruncate == InitTruncate /\ [][NextTruncate]_vars

\* "_<ts>_<idx>" of the call
Suffix == PostOf(args.ts, args.idx)

\* The length of the components other than the prompt.
FixedLen == Len(args.prefix) + Len(Suffix) + Len(args.ext)

EndsWith(s, t) ==
    Len(t) <= Len(s) /\ SubSeq(s, Len(s) - Len(t) + 1, Len(s)) = t

\* C3: when max is smaller than the sum of the fixed components, the prompt
\* segment of the result is empty: the result is prefix + suffix + ext.
C3_NoPromptWhenOverBudget ==
    (pc = "returned" /\ args.max < FixedLen)
        => ret = Str(args.prefix \o Suffix \o args.ext)

\* C4: when the fixed components fit (FixedLen + 1 <= max), the result is
\* prefix, the first min(len(prompt), budget) characters of prompt, the suffix
\* and ext; it is at most max long and ends with suffix + ext.
C4_TruncatedToBudget ==
    (pc = "returned" /\ FixedLen + 1 <= args.max) =>
        LET budget == args.max - Len(args.prefix) - Len(Suffix) - Len(args.ext) - 1
            kept == Min(Len(args.prompt), budget)
        IN  /\ ret = Str(args.prefix \o SubSeq(args.prompt, 1, kept)
                            \o Suffix \o args.ext)
            /\ Len(ret.v) <= args.max
            /\ EndsWith(ret.v, Suffix \o args.ext)

\* A prompt longer than its budget was cut.
C4_Witness ==
    /\ pc = "returned"
    /\ FixedLen + 1 <= args.max
    /\ args.max - FixedLen - 1 \in 1..(Len(args.prompt) - 1)
    /\ args.ts = 12345 /\ args.idx = 3 /\ args.ext /= <<>>

----------------------------------------------------------------------------
(* warp3d_op *)

\* A camera volume check that lets near = far through.
NearFarOk_NonStrict(near, far) == near <= far

\* near < far
NearFarOk(near, far) == near < far

\* fov > 0
FovOk(fov) == fov > 0

NearFarError(near, far) ==
    Exception("ValueError",
        <<"Invalid camera volume: must satisfy near < far, got near=">>
            \o FormatInt(near) \o <<", far=">> \o FormatInt(far))

FovError(fov) ==
    Exception("ValueError",
        <<"Invalid camera volume: fov must be greater than 0, got fov=">>
            \o FormatInt(fov))

\* generation.TransformWarp3d(): every field at its protobuf default
TransformWarp3d ==
    [ k |-> "TransformWarp3d", border_mode |-> Enum("BORDER_MODE_0"),
      translate_x |-> 0, translate_y |-> 0, translate_z |-> 0,
      rotate_x |-> 0, rotate_y |-> 0, rotate_z |-> 0,
      near_plane |-> 0, far_plane |-> 0, fov |-> 0 ]

\* generation.TransformOperation(warp3d=w): the oneof holds the 3D warp
TransformOperation_warp3d(w) ==
    [ k |-> "TransformOperation", transform |-> "warp3d", warp3d |-> w ]

\* Bound: the largest near or far plane of the calls explored.
MaxPlane == 2

Warp3dBorders == { <<"z","e","r","o">>, <<" ","R","e","f","l","e","c","t">>,
                   <<"r","e","p","l","i","c","a","t","e","\n">>,
                   <<"w","r","a","p">>, <<"n","o","p","e">> }

InitWarp3d ==
    /\ pc = "call"
    /\ args \in [ dx : {-1, 2}, dy : {-2, 3}, dz : {-3, 4},
                  rx : {-4, 5}, ry : {-5, 6}, rz : {-6, 7},
                  near : 0..MaxPlane, far : 0..MaxPlane, fov : {-1, 0, 60},
                  border : Warp3dBorders ]
    /\ ret = Unset
    /\ err = Unset
    /\ warp3d = None
    /\ OtherUnused({"warp3d"})

warp3d_locals == <<images, mask, cursor, key_frame_series, interp_method,
                   frames, scan>>

\* if not (near < far): raise ValueError(...)
CheckNearFar ==
    /\ pc = "call"
    /\ IF ~ NearFarOk(args.near, args.far)
       THEN Finish(NearFarError(args.near, args.far))
       ELSE pc' = "check_fov" /\ UNCHANGED <<ret, err>>
    /\ UNCHANGED <<args, warp3d, warp3d_locals>>

\* if not (fov > 0): raise ValueError(...)
CheckFov ==
    /\ pc = "check_fov"
    /\ IF ~ FovOk(args.fov)
       THEN Finish(FovError(args.fov))
       ELSE pc' = "construct" /\ UNCHANGED <<ret, err>>
    /\ UNCHANGED <<args, warp3d, warp3d_locals>>

\* warp3d = generation.TransformWarp3d()
Construct ==
    /\ pc = "construct"
    /\ warp3d' = TransformWarp3d
    /\ pc' = "border"
    /\ UNCHANGED <<args, ret, err, warp3d_locals>>

\* warp3d.border_mode = border_mode_from_str_3d(border)
ResolveBorder ==
    /\ pc = "border"
    /\ LET r == border_mode_from_str_3d(args.border)
       IN  IF r.k = "exc"
           THEN Finish(r) /\ UNCHANGED warp3d
           ELSE /\ warp3d' = [warp3d EXCEPT !.border_mode = r]
                /\ pc' = "populate"
                /\ UNCHANGED <<ret, err>>
    /\ UNCHANGED <<args, warp3d_locals>>

\* the nine numeric assignments, and the return
Populate ==
    /\ pc = "populate"
    /\ LET w == [warp3d EXCEPT !.translate_x = args.dx,
                               !.translate_y = args.dy,
                               !.translate_z = args.dz,
                               !.rotate_x = args.rx,
                               !.rotate_y = args.ry,
                               !.rotate_z = args.rz,
                               !.near_plane = args.near,
                               !.far_plane = args.far,
                               !.fov = args.fov]
       IN  /\ warp3d' = w
           /\ Finish(TransformOperation_warp3d(w))
    /\ UNCHANGED <<args, warp3d_locals>>

NextWarp3d ==
    \/ CheckNearFar
    \/ CheckFov
    \/ Construct
    \/ ResolveBorder
    \/ Populate

SpecWarp3d == InitWarp3d /\ [][NextWarp3d]_vars

\* The 3D border table as the specification gives it: the 2D names but "wrap".
Border3dNames ==
    { <<"r","e","p","l","i","c","a","t","e">>, <<"r","e","f","l","e","c","t">>,
      <<"z","e","r","o">> }

BorderIn3dTable(s) ==
    \E i \in 1..(Len(s) + 1), j \in 0..Len(s) :
        IsTrimOf(i, j, s) /\ SubSeq(lower(s), i, j) \in Border3dNames

Warp3dValid ==
    args.near < args.far /\ args.fov > 0 /\ BorderIn3dTable(args.border)

\* C6: warp3d_op returns exactly when near < far, fov > 0 and the border name
\* is in the 3D table, and then returns the 3D-warp variant holding the ten
\* arguments; with near >= far or fov <= 0 it raises a ValueError before any
\* operation is constructed or the border resolved, the near/far failure first.
C6_Warp3dContract ==
    /\ pc \notin {"returned", "raised"} => ENABLED NextWarp3d
    /\ pc = "returned" =>
        /\ Warp3dValid
        /\ ret.k = "TransformOperation" /\ ret.transform = "warp3d"
        /\ ret.warp3d.border_mode
              \in { p[2] : p \in { q \in BORDER_MODES_2D : q[1] \in Border3dNames } }
        /\ <<ret.warp3d.border_mode.name, args.border>>
              \in { <<"BORDER_ZERO", <<"z","e","r","o">> >>,
                    <<"BORDER_REFLECT", <<" ","R","e","f","l","e","c","t">> >>,
                    <<"BORDER_REPLICATE", <<"r","e","p","l","i","c","a","t","e","\n">> >> }
        /\ ret.warp3d.translate_x = args.dx
        /\ ret.warp3d.translate_y = args.dy
        /\ ret.warp3d.translate_z = args.dz
        /\ ret.warp3d.rotate_x = args.rx
        /\ ret.warp3d.rotate_y = args.ry
        /\ ret.warp3d.rotate_z = args.rz
        /\ ret.warp3d.near_plane = args.near
        /\ ret.warp3d.far_plane = args.far
        /\ ret.warp3d.fov = args.fov
    /\ pc = "raised" =>
        /\ ~ Warp3dValid
        /\ err.type = "ValueError"
        /\ (args.near >= args.far \/ args.fov <= 0) =>
              /\ warp3d = None
              /\ err.msg[1] /= "invalid 3d border mode "
        /\ args.near >= args.far =>
              err.msg[1] = "Invalid camera volume: must satisfy near < far, got near="
        /\ (args.near < args.far /\ args.fov <= 0) =>
              err.msg[1] = "Invalid camera volume: fov must be greater than 0, got fov="

\* near = far raised although fov and the border name are bad too.
C6_Witness ==
    /\ pc = "raised"
    /\ args.near = args.far /\ args.fov = 0
    /\ args.border = <<"w","r","a","p">>
    /\ warp3d = None

----------------------------------------------------------------------------
(* image_xform *)

ARTIFACT_IMAGE == "ARTIFACT_IMAGE"
ARTIFACT_MASK == "ARTIFACT_MASK"
ARTIFACT_TEXT == "ARTIFACT_TEXT"

Artifact(type, binary) == [type |-> type, binary |-> binary]

\* The decoded image of a well-formed buffer.
Ndarray(binary) == [k |-> "ndarray", of |-> binary]

CvError ==
    Exception("cv2.error", <<"(-215:Assertion failed) !buf.empty()">>)

\* cv2.imdecode(np.frombuffer(binary, np.uint8), cv2.IMREAD_COLOR): the image;
\* None for bytes that are no image; for an empty buffer None or cv2.error,
\* as the OpenCV build has it.
Imdecode(binary) ==
    CASE binary = "empty" -> { None, CvError }
      [] binary = "junk" -> { None }
      [] OTHER -> { Ndarray(binary) }

MultipleMasksError ==
    Exception("Exception",
        <<"multiple masks returned in response, cliend implementaion currently assumes no more than one mask returned">>)

\* An append at the wrong end of the list.
AppendImage_Front(list, im) == <<im>> \o list

\* images.append(im)
AppendImage(list, im) == Append(list, im)

\* Bound: the number of artifacts in a response stream.
MaxArtifacts == 3

Artifacts ==
    { Artifact(ARTIFACT_IMAGE, b) : b \in {"png1", "png2", "junk", "empty"} }
        \cup { Artifact(ARTIFACT_MASK, b) : b \in {"png3", "junk"} }
        \cup { Artifact(ARTIFACT_TEXT, "txt") }

\* The ways to cut a sequence of artifacts into non-empty response messages.
RECURSIVE Cuts(_)
Cuts(flat) ==
    IF flat = <<>> THEN { <<>> }
    ELSE UNION { { <<SubSeq(flat, 1, n)>> \o rest :
                      rest \in Cuts(SubSeq(flat, n + 1, Len(flat))) } :
                 n \in 1..Len(flat) }

Streams ==
    LET cut == UNION { Cuts(flat) : flat \in SeqsUpTo(Artifacts, MaxArtifacts) }
    IN  cut \cup { <<<<>>>> \o st : st \in { c \in cut : Len(c) <= 1 } }

InitImageXform ==
    /\ pc = "call"
    /\ args \in [ images : {0, 1}, stream : Streams ]
    /\ ret = Unset
    /\ err = Unset
    /\ images = Unset
    /\ mask = Unset
    /\ cursor = <<0, 0>>
    /\ OtherUnused({"images", "mask", "cursor"})

xform_locals == <<warp3d, key_frame_series, interp_method, frames, scan>>

\* assert(len(images)); the request is built; images, mask = [], None
BuildRequest ==
    /\ pc = "call"
    /\ IF args.images = 0
       THEN Finish(Exception("AssertionError", <<>>)) /\ UNCHANGED <<images, mask>>
       ELSE /\ images' = <<>>
            /\ mask' = None
            /\ pc' = "resp"
            /\ UNCHANGED <<ret, err>>
    /\ UNCHANGED <<args, cursor, xform_locals>>

\* for resp in stub.Generate(rq, wait_for_ready=True): the next message
NextResp ==
    /\ pc = "resp"
    /\ cursor[1] < Len(args.stream)
    /\ cursor' = <<cursor[1] + 1, 0>>
    /\ pc' = "artifact"
    /\ UNCHANGED <<args, ret, err, images, mask, xform_locals>>

\* the stream is exhausted: return images, mask
ReturnResult ==
    /\ pc = "resp"
    /\ cursor[1] = Len(args.stream)
    /\ Finish([k |-> "tuple", images |-> images, mask |-> mask])
    /\ UNCHANGED <<args, images, mask, cursor, xform_locals>>

\* for artifact in resp.artifacts: the message has no further artifact
EndOfResp ==
    /\ pc = "artifact"
    /\ cursor[2] = Len(args.stream[cursor[1]])
    /\ pc' = "resp"
    /\ UNCHANGED <<args, ret, err, images, mask, cursor, xform_locals>>

\* the body of the inner loop, for the next artifact of the message
ProcessArtifact ==
    /\ pc = "artifact"
    /\ cursor[2] < Len(args.stream[cursor[1]])
    /\ cursor' = <<cursor[1], cursor[2] + 1>>
    /\ LET artifact == args.stream[cursor[1]][cursor[2] + 1]
       IN  IF artifact.type \in {ARTIFACT_IMAGE, ARTIFACT_MASK}
           THEN \E im \in Imdecode(artifact.binary) :
                    IF im.k = "exc"
                    THEN Finish(im) /\ UNCHANGED <<images, mask>>
                    ELSE IF artifact.type = ARTIFACT_IMAGE
                    THEN /\ images' = AppendImage(images, im)
                         /\ UNCHANGED <<pc, ret, err, mask>>
                    ELSE IF mask /= None
                    THEN Finish(MultipleMasksError) /\ UNCHANGED <<images, mask>>
                    ELSE /\ mask' = im
                         /\ UNCHANGED <<pc, ret, err, images>>
           ELSE UNCHANGED <<pc, ret, err, images, mask>>
    /\ UNCHANGED <<args, xform_locals>>

NextImageXform ==
    \/ BuildRequest
    \/ NextResp
    \/ ReturnResult
    \/ EndOfResp
    \/ ProcessArtifact

SpecImageXform == InitImageXform /\ [][NextImageXform]_vars

RECURSIVE Flatten(_)
Flatten(stream) ==
    IF stream = <<>> THEN <<>> ELSE Head(stream) \o Flatten(Tail(stream))

IsImage(a) == a.type = ARTIFACT_IMAGE
IsMask(a) == a.type = ARTIFACT_MASK

\* The artifacts of the stream in arrival order, by type.
ImageArtifacts == SelectSeq(Flatten(args.stream), IsImage)
MaskArtifacts == SelectSeq(Flatten(args.stream), IsMask)

\* The artifacts consumed so far, in arrival order.
Consumed ==
    IF cursor[1] = 0 THEN <<>>
    ELSE Flatten(SubSeq(args.stream, 1, cursor[1] - 1))
            \o SubSeq(args.stream[cursor[1]], 1, cursor[2])

\* C1: on a stream with at most one mask artifact, image_xform returns only
\* once the stream is exhausted; the returned list holds one decoded entry per
\* image artifact, in arrival order; the returned mask is the decoded mask
\* artifact if one arrived and None otherwise; other artifacts add nothing.
\* Only the decoder can make such a call raise.
C1_ImagesInArrivalOrder ==
    (Len(MaskArtifacts) <= 1 /\ args.images > 0) =>
        /\ pc = "returned" =>
            /\ Consumed = Flatten(args.stream)
            /\ cursor[1] = Len(args.stream)
            /\ Len(ret.images) = Len(ImageArtifacts)
            /\ \A i \in 1..Len(ImageArtifacts) :
                  /\ ret.images[i] \in Imdecode(ImageArtifacts[i].binary)
                  /\ ret.images[i].k /= "exc"
            /\ IF MaskArtifacts = <<>>
               THEN ret.mask = None
               ELSE /\ ret.mask \in Imdecode(MaskArtifacts[1].binary)
                    /\ ret.mask.k /= "exc"
        /\ pc = "raised" => err = CvError

\* Two images and a mask came back, in arrival order, from two messages.
C1_Witness ==
    /\ pc = "returned"
    /\ Len(args.stream) = 2
    /\ ret.images = <<Ndarray("png2"), Ndarray("png1")>>
    /\ ret.mask = Ndarray("png3")

\* C2: once a second mask artifact has been consumed the call has raised, so
\* it never returns a result for a stream that holds two masks.
C2_SecondMaskRaises ==
    /\ Len(SelectSeq(Consumed, IsMask)) >= 2 => pc = "raised"
    /\ pc = "returned" => Len(MaskArtifacts) <= 1

----------------------------------------------------------------------------
(* key_frame_inbetweens.  A float is an exact fraction n/d in lowest terms;  *)
(* np.nan is NaN; a value a scipy spline computes is Spline (some number).   *)

\* The method names
Linear == <<"L","i","n","e","a","r">>
Quadratic == <<"Q","u","a","d","r","a","t","i","c">>
Cubic == <<"C","u","b","i","c">>

Abs(x) == IF x < 0 THEN -x ELSE x

RECURSIVE Gcd(_, _)
Gcd(a, b) == IF b = 0 THEN a ELSE Gcd(b, a % b)

\* The float n/d
Num(n, d) ==
    LET g == Gcd(Abs(n), Abs(d))
        sign == IF d < 0 THEN -1 ELSE 1
    IN  [k |-> "num", n |-> sign * (n \div g), d |-> sign * (d \div g)]

NaN == [k |-> "nan"]
Spline == [k |-> "spline"]

IsNaN(v) == v.k = "nan"

\* float -> int of astype(int): towards zero
Truncate(v) ==
    IF v.k = "num"
    THEN Num(IF v.n >= 0 THEN v.n \div v.d ELSE -((-v.n) \div v.d), 1)
    ELSE v

\* a dict as a set of <<frame, value>> pairs: the value under frame i
ValueAt(key_frames, i) == (CHOOSE p \in key_frames : p[1] = i)[2]

\* lines 194-198: a series of max_frames NaNs, then the keyframes put in
FilledSeries(key_frames, max_frames) ==
    [i \in 0..(max_frames - 1) |->
        IF i \in Keys(key_frames) THEN ValueAt(key_frames, i) ELSE NaN]

\* A degradation that leaves Cubic alone with three keyframes.
EffectiveMethod_Strict(interp, n) ==
    LET m1 == IF interp = Cubic /\ n < 3 THEN Quadratic ELSE interp
    IN  IF m1 = Quadratic /\ n <= 2 THEN Linear ELSE m1

\* lines 200-203
EffectiveMethod(interp, n) ==
    LET m1 == IF interp = Cubic /\ n <= 3 THEN Quadratic ELSE interp
    IN  IF m1 = Quadratic /\ n <= 2 THEN Linear ELSE m1

ValidIndexes(series) == { i \in DOMAIN series : ~ IsNaN(series[i]) }

SetMin(S) == CHOOSE x \in S : \A y \in S : x <= y
SetMax(S) == CHOOSE x \in S : \A y \in S : x >= y

\* Series.first_valid_index() / last_valid_index() of a series with a valid
\* entry (they are None when all is NaN)
first_valid_index(series) == SetMin(ValidIndexes(series))
last_valid_index(series) == SetMax(ValidIndexes(series))

\* Only the left end is clamped.
Clamped_LeftOnly(series, max_frames) ==
    [series EXCEPT ![0] = series[first_valid_index(series)]]

\* lines 205-206, for a series with a valid entry
Clamped(series, max_frames) ==
    LET left == [series EXCEPT ![0] = series[first_valid_index(series)]]
    IN  [left EXCEPT ![max_frames - 1] = left[last_valid_index(left)]]

\* The point midway in value, whatever the position.
LinearAt_Midpoint(a, va, b, vb, i) ==
    Num(va.n * vb.d + vb.n * va.d, 2 * va.d * vb.d)

\* np.interp at i between the valid points (a, va) and (b, vb), a < i < b
LinearAt(a, va, b, vb, i) ==
    Num(va.n * vb.d * (b - a) + (vb.n * va.d - va.n * vb.d) * (i - a),
        va.d * vb.d * (b - a))

\* pd.Series: the values, by position
Series(values) == [k |-> "Series", v |-> values]

\* The points a scipy spline of each kind needs.
MinPoints(method) ==
    CASE method = lower(Quadratic) -> 3 [] method = lower(Cubic) -> 4 [] OTHER -> 1

\* Series.interpolate(method=..., limit_direction='both'): the series, or the
\* exception scipy raises.  'linear' is np.interp over the valid entries,
\* which holds the end values outside them; 'quadratic' and 'cubic' are
\* scipy's interp1d, which gives NaN outside the valid entries.
Interpolate(series, method) ==
    LET valid == ValidIndexes(series)
        below(i) == SetMax({ a \in valid : a < i })
        above(i) == SetMin({ b \in valid : b > i })
        inside(i) == (\E a \in valid : a < i) /\ (\E b \in valid : b > i)
    IN  IF valid = {} \/ valid = DOMAIN series THEN Series(series)
        ELSE IF method = lower(Linear)
        THEN Series([i \in DOMAIN series |->
                IF i \in valid THEN series[i]
                ELSE IF inside(i)
                THEN LinearAt(below(i), series[below(i)], above(i), series[above(i)], i)
                ELSE IF \E a \in valid : a < i THEN series[SetMax(valid)]
                ELSE series[SetMin(valid)]])
        ELSE IF Cardinality(valid) < MinPoints(method)
        THEN Exception("ValueError", <<"scipy: too few points for the spline">>)
        ELSE Series([i \in DOMAIN series |->
                IF i \in valid THEN series[i]
                ELSE IF inside(i) THEN Spline ELSE NaN])

\* Bound: the largest max_frames of the calls explored.
MaxFrames == 5

KeyframeValues == { Num(1, 1), Num(5, 1), Num(-3, 2) }

\* Every dict with frames in 0..max_frames-1 and values in KeyframeValues.
KeyframeMaps(max_frames) ==
    UNION { { { <<i, f[i]>> : i \in K } : f \in [K -> KeyframeValues] } :
            K \in SUBSET (0..(max_frames - 1)) }

InitInbetweens ==
    /\ pc = "call"
    /\ \E max_frames \in 2..MaxFrames :
          args \in [ key_frames : KeyframeMaps(max_frames),
                     max_frames : {max_frames},
                     integer : BOOLEAN,
                     interp_method : {Linear, Quadratic, Cubic} ]
    /\ ret = Unset
    /\ err = Unset
    /\ key_frame_series = Unset
    /\ interp_method = args.interp_method
    /\ OtherUnused({"key_frame_series", "interp_method"})

inbetweens_locals == <<images, mask, cursor, warp3d, frames, scan>>

\* lines 194-198
FillSeries ==
    /\ pc = "call"
    /\ key_frame_series' = FilledSeries(args.key_frames, args.max_frames)
    /\ pc' = "select"
    /\ UNCHANGED <<args, ret, err, interp_method, inbetweens_locals>>

\* lines 200-203
SelectMethod ==
    /\ pc = "select"
    /\ interp_method' = EffectiveMethod(interp_method, Cardinality(args.key_frames))
    /\ pc' = "clamp"
    /\ UNCHANGED <<args, ret, err, key_frame_series, inbetweens_locals>>

\* lines 205-206: key_frame_series[None] is a KeyError
ClampEnds ==
    /\ pc = "clamp"
    /\ IF ValidIndexes(key_frame_series) = {}
       THEN Finish(Exception("KeyError", <<"None">>)) /\ UNCHANGED key_frame_series
       ELSE /\ key_frame_series' = Clamped(key_frame_series, args.max_frames)
            /\ pc' = "interpolate"
            /\ UNCHANGED <<ret, err>>
    /\ UNCHANGED <<args, interp_method, inbetweens_locals>>

\* line 207
InterpolateSeries ==
    /\ pc = "interpolate"
    /\ LET r == Interpolate(key_frame_series, lower(interp_method))
       IN  IF r.k = "exc"
           THEN Finish(r) /\ UNCHANGED key_frame_series
           ELSE /\ key_frame_series' = r.v
                /\ pc' = "cast"
                /\ UNCHANGED <<ret, err>>
    /\ UNCHANGED <<args, interp_method, inbetweens_locals>>

\* lines 208-210
ReturnSeries ==
    /\ pc = "cast"
    /\ Finish(Series(IF args.integer
                     THEN [i \in DOMAIN key_frame_series |->
                              Truncate(key_frame_series[i])]
                     ELSE key_frame_series))
    /\ UNCHANGED <<args, key_frame_series, interp_method, inbetweens_locals>>

NextInbetweens ==
    \/ FillSeries
    \/ SelectMethod
    \/ ClampEnds
    \/ InterpolateSeries
    \/ ReturnSeries

SpecInbetweens == InitInbetweens /\ [][NextInbetweens]_vars

\* The number of entries in the keyframe map of the call.
NumKeyframes == Cardinality(args.key_frames)

MethodOrder(method) ==
    CASE method = Linear -> 1 [] method = Quadratic -> 2 [] method = Cubic -> 3

\* C7: the effective method depends on the requested method and on the number
\* n of keyframes only: Cubic needs n >= 4 and falls to Quadratic at n = 3,
\* Cubic and Quadratic fall to Linear at n <= 2, Quadratic stays at n >= 3,
\* Linear stays; the effective method is never of a higher order.
C7_MethodDegradation ==
    pc \notin {"call", "select"} =>
        /\ interp_method =
              CASE args.interp_method = Cubic /\ NumKeyframes >= 4 -> Cubic
                [] args.interp_method = Cubic /\ NumKeyframes = 3 -> Quadratic
                [] args.interp_method = Cubic /\ NumKeyframes <= 2 -> Linear
                [] args.interp_method = Quadratic /\ NumKeyframes >= 3 -> Quadratic
                [] args.interp_method = Quadratic /\ NumKeyframes <= 2 -> Linear
                [] args.interp_method = Linear -> Linear
        /\ MethodOrder(interp_method) <= MethodOrder(args.interp_method)

\* A Cubic request over two keyframes was interpolated linearly.
C7_Witness ==
    /\ pc = "returned"
    /\ args.interp_method = Cubic
    /\ NumKeyframes = 2
    /\ interp_method = Linear

LowestFrame == SetMin(Keys(args.key_frames))
HighestFrame == SetMax(Keys(args.key_frames))

Defined(v) == v.k \in {"num", "spline"}

\* C8 as stated: for a non-empty map the returned series has max_frames
\* positions, position 0 holds the value of the lowest keyframe, position
\* max_frames-1 the value of the highest, and no position is undefined.
C8_EndsHoldKeyframeValues ==
    (pc = "returned" /\ args.key_frames /= {}) =>
        /\ DOMAIN ret.v = 0..(args.max_frames - 1)
        /\ ret.v[0] = ValueAt(args.key_frames, LowestFrame)
        /\ ret.v[args.max_frames - 1] = ValueAt(args.key_frames, HighestFrame)
        /\ \A i \in DOMAIN ret.v : Defined(ret.v[i])

\* What integer=True makes of a value: its integer part, towards zero.
IntegerPart(v) ==
    IF v.n >= 0 THEN Num(v.n - (v.n % v.d), v.d)
    ELSE Num(v.n + ((-v.n) % v.d), v.d)

AsReturned(v) == IF args.integer THEN IntegerPart(v) ELSE v

\* C8, amended: a call with a non-empty map returns; the series has max_frames
\* positions, none undefined; positions 0 and max_frames-1 hold the values of
\* the lowest and the highest keyframe, cut to their integer part when integer
\* output is requested.
C8_EndsHoldKeyframeValuesAsReturned ==
    /\ args.key_frames /= {} => pc /= "raised"
    /\ (pc = "returned" /\ args.key_frames /= {}) =>
        /\ DOMAIN ret.v = 0..(args.max_frames - 1)
        /\ ret.v[0] = AsReturned(ValueAt(args.key_frames, LowestFrame))
        /\ ret.v[args.max_frames - 1]
              = AsReturned(ValueAt(args.key_frames, HighestFrame))
        /\ \A i \in DOMAIN ret.v : Defined(ret.v[i])

\* Neither end is a keyframe, the method is a spline, the ends are clamped.
C8_Witness ==
    /\ pc = "returned"
    /\ interp_method = Quadratic
    /\ 0 \notin Keys(args.key_frames)
    /\ args.max_frames - 1 \notin Keys(args.key_frames)
    /\ ret.v[0] /= ret.v[args.max_frames - 1]
    /\ args.integer

RatAdd(x, y) == Num(x.n * y.d + y.n * x.d, x.d * y.d)
RatSub(x, y) == Num(x.n * y.d - y.n * x.d, x.d * y.d)
RatMul(x, y) == Num(x.n * y.n, x.d * y.d)
RatLess(x, y) == x.n * y.d < y.n * x.d

\* The piecewise-linear reference at position i.
Reference(i) ==
    LET K == Keys(args.key_frames)
        v(f) == ValueAt(args.key_frames, f)
    IN  IF i \in K THEN v(i)
        ELSE IF i < LowestFrame THEN v(LowestFrame)
        ELSE IF i > HighestFrame THEN v(HighestFrame)
        ELSE LET a == SetMax({ f \in K : f < i })
                 b == SetMin({ f \in K : f > i })
             IN  RatAdd(v(a), RatMul(RatSub(v(b), v(a)), Num(i - a, b - a)))

LinearCall == pc = "returned" /\ interp_method = Linear

\* The returned series is the piecewise-linear reference; a single entry
\* gives a constant series; two keyframes at 0 and max_frames-1 with
\* v_0 < v_last give a strictly increasing series from v_0 to v_last.
IsLinearReference ==
    /\ \A i \in DOMAIN ret.v : ret.v[i] = Reference(i)
    /\ NumKeyframes = 1 =>
          \A i \in DOMAIN ret.v :
              ret.v[i] = ValueAt(args.key_frames, LowestFrame)
    /\ ( /\ Keys(args.key_frames) = {0, args.max_frames - 1}
         /\ RatLess(ValueAt(args.key_frames, 0),
                    ValueAt(args.key_frames, args.max_frames - 1)) ) =>
          /\ \A i \in 1..(args.max_frames - 1) : RatLess(ret.v[i - 1], ret.v[i])
          /\ ret.v[0] = ValueAt(args.key_frames, 0)
          /\ ret.v[args.max_frames - 1]
                = ValueAt(args.key_frames, args.max_frames - 1)

\* C9 as stated: with effective method Linear the returned series is the
\* piecewise-linear reference, constant for a single entry and strictly
\* increasing between two end keyframes with v_0 < v_last.
C9_LinearReference == LinearCall => IsLinearReference

\* C9, amended: with effective method Linear and no integer output requested,
\* the returned series is the piecewise-linear reference, constant for a
\* single entry and strictly increasing between two end keyframes with
\* v_0 < v_last.
C9_LinearReferenceWithoutIntegerCast ==
    (LinearCall /\ ~ args.integer) => IsLinearReference

\* Two keyframes three frames apart, neither at an end, were joined linearly.
C9_Witness ==
    /\ LinearCall
    /\ ~ args.integer
    /\ Keys(args.key_frames) = {1, 4}
    /\ ret.v[2] /= ret.v[3]
    /\ ret.v[0] = ret.v[1]

----------------------------------------------------------------------------
(* key_frame_parse *)

IsDigit(c) == \E i \in DOMAIN Digits : Digits[i] = c

DigitValue(c) == (CHOOSE i \in DOMAIN Digits : Digits[i] = c) - 1

\* int(text) of a run of digits
RECURSIVE ParseNat(_)
ParseNat(text) ==
    IF text = <<>> THEN 0
    ELSE 10 * ParseNat(SubSeq(text, 1, Len(text) - 1)) + DigitValue(text[Len(text)])

\* The first index from p on whose character fails test(c); Len(s)+1 if none.
RECURSIVE SkipDigits(_, _)
SkipDigits(s, p) ==
    IF p <= Len(s) /\ IsDigit(s[p]) THEN SkipDigits(s, p + 1) ELSE p

RECURSIVE SkipSpace(_, _)
SkipSpace(s, p) ==
    IF p <= Len(s) /\ s[p] \in Whitespace THEN SkipSpace(s, p + 1) ELSE p

\* The first index from p on holding c; Len(s)+1 if none.
RECURSIVE Find(_, _, _)
Find(s, c, p) ==
    IF p <= Len(s) /\ s[p] /= c THEN Find(s, c, p + 1) ELSE p

NoMatch == [k |-> "None"]

\* The pattern ((?P<frame>[0-9]+):[\s]*[\(](?P<param>[\S\s]*?)[\)]) tried at
\* index p: digits as far as they go, a colon, whitespace as far as it goes,
\* "(", then up to the first ")".
MatchAt(s, p) ==
    LET q == SkipDigits(s, p)
        r == SkipSpace(s, q + 1)
        e == Find(s, ")", r + 1)
    IN  IF q > p /\ q <= Len(s) /\ s[q] = ":"
           /\ r <= Len(s) /\ s[r] = "(" /\ e <= Len(s)
        THEN [k |-> "match", start |-> p, end |-> e,
              frame |-> SubSeq(s, p, q - 1), param |-> SubSeq(s, r + 1, e - 1)]
        ELSE NoMatch

\* re.finditer: the leftmost match starting at index p or later
RECURSIVE NextMatch(_, _)
NextMatch(s, p) ==
    IF p > Len(s) THEN NoMatch
    ELSE IF MatchAt(s, p) /= NoMatch THEN MatchAt(s, p)
    ELSE NextMatch(s, p + 1)

\* frames[frame] = value
Put(dict, key, value) == { e \in dict : e[1] /= key } \cup { <<key, value>> }

\* The caller's parser applied to the parameter text.
Parsed(param) == [k |-> "parsed", of |-> param]

\* A check that forgets the empty string.
ShouldRaise_AnyEmpty(dict, string) == dict = {}

\* if frames == {} and len(string) != 0
ShouldRaise(dict, string) == dict = {} /\ Len(string) /= 0

\* Bound: the number of pieces an input string is put together from.
MaxPieces == 4

ParsePieces ==
    { <<"1">>, <<":">>, <<"(">>, <<")">>, <<" ">>, <<"a">>,
      <<"1",":","(","b",")">>, <<"0","1",":"," ","(","a">> }

RECURSIVE Joined(_)
Joined(pieces) ==
    IF pieces = <<>> THEN <<>> ELSE Head(pieces) \o Joined(Tail(pieces))

ParseInputs == { Joined(ps) : ps \in SeqsUpTo(ParsePieces, MaxPieces) }

InitParse ==
    /\ pc = "call"
    /\ args \in [ string : ParseInputs, prompt_parser : {None, Enum("parser")} ]
    /\ ret = Unset
    /\ err = Unset
    /\ frames = Unset
    /\ scan = 1
    /\ OtherUnused({"frames", "scan"})

parse_locals == <<images, mask, cursor, warp3d, key_frame_series, interp_method>>

\* lines 213-214
StartParse ==
    /\ pc = "call"
    /\ frames' = {}
    /\ pc' = "finditer"
    /\ UNCHANGED <<args, ret, err, scan, parse_locals>>

\* lines 215-221: the body of the loop, for the next match
RecordMatch ==
    /\ pc = "finditer"
    /\ LET match_object == NextMatch(args.string, scan)
       IN  /\ match_object /= NoMatch
           /\ LET frame == ParseNat(match_object.frame)
                  param == match_object.param
              IN  frames' = IF args.prompt_parser /= None
                            THEN Put(frames, frame, Parsed(param))
                            ELSE Put(frames, frame, Str(param))
           /\ scan' = match_object.end + 1
    /\ UNCHANGED <<pc, args, ret, err, parse_locals>>

\* lines 222-224: no further match
FinishParse ==
    /\ pc = "finditer"
    /\ NextMatch(args.string, scan) = NoMatch
    /\ IF ShouldRaise(frames, args.string)
       THEN Finish(Exception("RuntimeError",
                             <<"Key Frame string not correctly formatted">>))
       ELSE Finish([k |-> "dict", v |-> frames])
    /\ UNCHANGED <<args, frames, scan, parse_locals>>

NextParse ==
    \/ StartParse
    \/ RecordMatch
    \/ FinishParse

SpecParse == InitParse /\ [][NextParse]_vars

\* <<p, q, r, e>>: digits at p..q-1, ":" at q, whitespace at q+1..r-1, "(" at
\* r and ")" at e: a segment <integer frame>:(<parameter text>) of s.
IsSegment(s, p, q, r, e) ==
    /\ p < q /\ q < r /\ r < e /\ e <= Len(s)
    /\ \A h \in p..(q - 1) : IsDigit(s[h])
    /\ s[q] = ":"
    /\ \A h \in (q + 1)..(r - 1) : s[h] \in Whitespace
    /\ s[r] = "("
    /\ s[e] = ")"

At(s, c) == { h \in 1..Len(s) : s[h] = c }

\* The segments with their colon at q.
SegmentsAt(s, q) ==
    { p \in 1..(q - 1) : \A h \in p..(q - 1) : IsDigit(s[h]) }
        \X {q}
        \X { r \in At(s, "(") : r > q /\ \A h \in (q + 1)..(r - 1) : s[h] \in Whitespace }
        \X At(s, ")")

SegmentsOf(s) ==
    { c \in UNION { SegmentsAt(s, q) : q \in At(s, ":") } :
        IsSegment(s, c[1], c[2], c[3], c[4]) }

\* The segments a scan can match: the whole run of digits, the parameter text
\* up to the first ")".
WholeSegmentsOf(s) ==
    { c \in SegmentsOf(s) :
        /\ c[1] = 1 \/ ~ IsDigit(s[c[1] - 1])
        /\ \A h \in (c[3] + 1)..(c[4] - 1) : s[h] /= ")" }

\* Of the segments W, those no earlier matched segment runs over.
Unshadowed(W) ==
    CHOOSE M \in SUBSET W :
        \A c \in W : c \in M <=> ~ \E m \in M : m[1] < c[1] /\ c[1] <= m[4]

\* The matched segments of s.
MatchedSegmentsOf(s) == Unshadowed(WholeSegmentsOf(s))

FrameOf(s, c) == ParseNat(SubSeq(s, c[1], c[2] - 1))
ParamOf(s, c) == SubSeq(s, c[3] + 1, c[4] - 1)

\* C10: key_frame_parse raises exactly when the string is non-empty and holds
\* no segment <integer frame>:(<parameter text>); the empty string gives the
\* empty map; otherwise the map has exactly the frames of the matched
\* segments as keys, each with its segment's parameter text (the last such
\* segment's), passed through the parser when there is one.
C10_ParseContract ==
    /\ pc = "finditer" =>
          \E m \in {NextMatch(args.string, scan)} :
              m /= NoMatch => scan <= m.start /\ m.end <= Len(args.string)
    /\ pc = "raised" =>
          /\ err.type = "RuntimeError"
          /\ args.string /= <<>> /\ SegmentsOf(args.string) = {}
    /\ pc = "returned" =>
          \E s \in {args.string} : \E M \in {MatchedSegmentsOf(s)} :
              /\ s = <<>> \/ SegmentsOf(s) /= {}
              /\ s = <<>> => ret.v = {}
              /\ Keys(ret.v) = { FrameOf(s, c) : c \in M }
              /\ \A e \in ret.v :
                    \E c \in M :
                        /\ FrameOf(s, c) = e[1]
                        /\ \A d \in M : FrameOf(s, d) = e[1] => d[1] <= c[1]
                        /\ e[2] = IF args.prompt_parser = None
                                  THEN Str(ParamOf(s, c))
                                  ELSE Parsed(ParamOf(s, c))
              /\ \A e, f \in ret.v : e[1] = f[1] => e = f

\* Two segments for frame 1; the later one, written with a leading zero and
\* with whitespace after the colon, is the one kept.
C10_Witness ==
    /\ pc = "returned"
    /\ args.string = <<"1",":","(","b",")","0","1",":"," ","(","a",")">>
    /\ args.prompt_parser = None
    /\ ret.v = { <<1, Str(<<"a">>)>> }

====
